---------------------------- MODULE Spec2Model ----------------------------
(***************************************************************************)
(* Model of the interview-log analysis pipeline of intv_comp:              *)
(*   analyze/analyze_interviews.py  sequencing, token-bounded chunking,    *)
(*                                  hierarchical compression, tag parsing  *)
(*   analyze/message_filter.py      relevance scoring and filtering        *)
(*   analyze/llm_client.py          the text-generation client             *)
(*                                                                         *)
(* Texts are sequences of one-character strings, so that len(), joins,     *)
(* strip() and pattern matching are computed as the code computes them.    *)
(***************************************************************************)
EXTENDS Integers, Sequences, FiniteSets, TLC

VARIABLES
    pc,                          \* position of the running function
    HAS_TIKTOKEN,                \* analyze_interviews.py:20-25
    encoding,                    \* what tiktoken can provide for the model hint
    sorted_messages_df,          \* chunk_messages_for_llm: the input rows
    max_tokens_per_chunk,        \* chunk_messages_for_llm: the budget
    row_idx,                     \* chunk_messages_for_llm: rows consumed by the for loop
    chunks,                      \* chunk_messages_for_llm: chunks emitted so far
    current_chunk_text,          \* chunk_messages_for_llm: the accumulator
    chunk_summaries,             \* compress_chunk_summaries: the input list
    max_tokens_for_global_prompt,\* compress_chunk_summaries: the budget
    current,                     \* compress_chunk_summaries: the current level
    next_level,                  \* compress_chunk_summaries: the level being built
    round_index,                 \* compress_chunk_summaries: the for loop's counter
    batch_start,                 \* compress_chunk_summaries: i of the inner for loop
    compressed,                  \* compress_chunk_summaries: the value returned
    llm_calls,                   \* the requests served by LLMClient.chat_completion, in order
    messages_df,                 \* the message rows given to the sequencer
    transcript,                  \* build_global_transcript_df: the frame returned
    grouped,                     \* group_messages_by_session: the mapping returned
    columns,                     \* messages_df.columns
    message_content,             \* calculate_relevance_score: the argument
    returned_scores,             \* calculate_relevance_score: the values returned for it, in order
    matched_keywords,            \* calculate_relevance_score: the list built by the last evaluation
    threshold,                   \* filter_messages_by_relevance: the threshold
    relevance_scores,            \* filter_messages_by_relevance: the score of each row
    filtered_df,                 \* filter_messages_by_relevance: the frame returned
    total_messages,              \* filter_messages_by_relevance: len(messages_df)
    filtered_messages,           \* filter_messages_by_relevance: len(filtered_df)
    excluded_messages,           \* filter_messages_by_relevance: the difference
    response_text,               \* extract_tagged_section: the text searched
    tag,                         \* extract_tagged_section: the tag name
    section,                     \* extract_tagged_section: the value returned
    estimate_text,               \* _estimate_token_count: the text argument
    estimated_tokens,            \* _estimate_token_count: the value returned
    messages_file_exists,        \* main: args.messages_file is there
    api_key,                     \* main: OPENAI_API_KEY is set
    reference_materials,         \* main: what load_reference_materials returned
    global_prompt,               \* main: the prompt of the final synthesis
    global_response,             \* main: the response of the final synthesis
    report_file,                 \* main: args.output, <<>> while it is not written
    error,                       \* main: the exception main ends with, "" while there is none
    system_prompt,               \* LLMClient.chat_completion: the argument
    user_prompt,                 \* LLMClient.chat_completion: the argument
    requests,                    \* LLMClient.chat_completion: calls of completions.create so far
    response,                    \* LLMClient.chat_completion: what completions.create did
    chat_result                  \* LLMClient.chat_completion: how the invocation ended

estVars   == <<HAS_TIKTOKEN, encoding>>
chunkVars == <<sorted_messages_df, max_tokens_per_chunk, row_idx, chunks, current_chunk_text>>
compVars  == <<chunk_summaries, max_tokens_for_global_prompt, current, next_level,
               round_index, batch_start, compressed>>
sortVars  == <<messages_df, columns, transcript, grouped>>
scoreVars == <<message_content, returned_scores, matched_keywords>>
filterVars == <<threshold, relevance_scores, filtered_df, total_messages,
                filtered_messages, excluded_messages>>
extractVars == <<response_text, tag, section>>
countVars == <<estimate_text, estimated_tokens>>
mainVars  == <<messages_file_exists, api_key, reference_materials, global_prompt,
               global_response, report_file, error>>
clientVars == <<system_prompt, user_prompt, requests, response, chat_result>>
vars      == <<pc, estVars, chunkVars, compVars, llm_calls, sortVars,
               scoreVars, filterVars, extractVars, countVars, mainVars, clientVars>>

\* what a running function leaves alone
notChunkVars == <<compVars, llm_calls, sortVars, scoreVars, filterVars, extractVars, countVars,
    mainVars, clientVars>>
notCompVars  == <<chunkVars, sortVars, scoreVars, filterVars, extractVars, countVars,
    mainVars, clientVars>>
notSortVars  == <<estVars, chunkVars, compVars, llm_calls, scoreVars, filterVars, extractVars, countVars,
    mainVars, clientVars>>
notScoreVars == <<estVars, chunkVars, compVars, llm_calls, sortVars, filterVars, extractVars, countVars,
    mainVars, clientVars>>
notFilterVars == <<estVars, chunkVars, compVars, llm_calls, transcript, grouped,
                   scoreVars, extractVars, countVars,
    mainVars, clientVars>>
notExtractVars == <<estVars, chunkVars, compVars, llm_calls, sortVars, scoreVars, filterVars, countVars,
    mainVars, clientVars>>
notCountVars == <<chunkVars, compVars, llm_calls, sortVars, scoreVars, filterVars, extractVars,
    mainVars, clientVars>>

----------------------------------------------------------------------------
(* Bounds of the model *)

MaxMsgs == 3                     \* longest message stream given to the chunker
MaxSummaries == 101              \* longest list of chunk summaries given to the compressor
MaxRows == 3                     \* most message rows given to the sequencer

----------------------------------------------------------------------------
(* Text helpers *)

NL == "\n"

\* c * n
Repeat(c, n) == [i \in 1..n |-> c]

\* sep.join(parts), computed by halves to keep the evaluation shallow
RECURSIVE Join(_, _)
Join(parts, sep) ==
    IF parts = <<>> THEN <<>>
    ELSE IF Len(parts) = 1 THEN parts[1]
    ELSE LET h == Len(parts) \div 2
         IN  Join(SubSeq(parts, 1, h), sep) \o sep \o Join(SubSeq(parts, h + 1, Len(parts)), sep)

\* str() of a small non-negative integer
Digits == <<"0", "1", "2", "3", "4", "5", "6", "7", "8", "9">>
RECURSIVE IntToStr(_)
IntToStr(n) == IF n < 10 THEN <<Digits[n + 1]>> ELSE IntToStr(n \div 10) \o <<Digits[(n % 10) + 1]>>

----------------------------------------------------------------------------
(* Token estimator: _estimate_token_count *)

\* len(encoding.encode(text)) of the external tokenizer. The tokenizer is not
\* part of the repository; it is abstracted as one token per character.
EncodedLength(text) == Len(text)

\* encoding: "model"     tiktoken.encoding_for_model(model) succeeds
\*           "cl100k"    it raises KeyError and get_encoding("cl100k_base") succeeds
\*           "error"     a KeyError or ValueError escapes the inner try
Encodings == {"model", "cl100k", "error"}

EstimatorConfigs ==
    {<<FALSE, "error">>} \cup {<<TRUE, e>> : e \in Encodings}

_estimate_token_count(text) ==
    IF HAS_TIKTOKEN
    THEN IF encoding \in {"model", "cl100k"}
         THEN EncodedLength(text)
         ELSE Len(text) \div 4
    ELSE Len(text) \div 4

----------------------------------------------------------------------------
(* Chunker: chunk_messages_for_llm *)

Timestamps  == 1..2
Roles       == {<<"u">>, <<"a">>}
ContentLens == {0, 1, 5, 9}
Contents    == {Repeat("x", n) : n \in ContentLens}
ChunkBudgets == {2, 3, 8, 16}

Rows == [timestamp : Timestamps, role : Roles, content : Contents]

\* the rows given to the chunker on its own: one speaker is enough there
ChunkRows == {r \in Rows : r.role = <<"u">>}

\* f"[{timestamp}] {role}: {message}"
FormatLine(row) ==
    <<"[">> \o IntToStr(row.timestamp) \o <<"]", " ">> \o row.role \o <<":", " ">> \o row.content

IsSortedByTimestamp(df) ==
    \A i \in 1..(Len(df) - 1) : df[i].timestamp <= df[i + 1].timestamp

ChunkerInputs ==
    {df \in UNION {[1..n -> ChunkRows] : n \in 0..MaxMsgs} : IsSortedByTimestamp(df)}

\* the variables of a function that is not running
IdleChunk ==
    /\ sorted_messages_df = <<>>
    /\ max_tokens_per_chunk = 0
    /\ row_idx = 0
    /\ chunks = <<>>
    /\ current_chunk_text = <<>>

IdleCompress ==
    /\ chunk_summaries = <<>>
    /\ max_tokens_for_global_prompt = 0
    /\ current = <<>>
    /\ next_level = <<>>
    /\ round_index = 0
    /\ batch_start = 0
    /\ compressed = <<>>

IdleSort ==
    /\ messages_df = <<>>
    /\ columns = {}
    /\ transcript = <<>>
    /\ grouped = <<>>

IdleScore ==
    /\ message_content = <<>>
    /\ returned_scores = <<>>
    /\ matched_keywords = <<>>

IdleFilter ==
    /\ threshold = 0
    /\ relevance_scores = <<>>
    /\ filtered_df = <<>>
    /\ total_messages = 0
    /\ filtered_messages = 0
    /\ excluded_messages = 0

IdleExtract ==
    /\ response_text = <<>>
    /\ tag = <<>>
    /\ section = <<>>

IdleCount ==
    /\ estimate_text = <<>>
    /\ estimated_tokens = 0

IdleMain ==
    /\ messages_file_exists = TRUE
    /\ api_key = TRUE
    /\ reference_materials = <<>>
    /\ global_prompt = <<>>
    /\ global_response = <<>>
    /\ report_file = <<>>
    /\ error = ""

IdleClient ==
    /\ system_prompt = ""
    /\ user_prompt = <<>>
    /\ requests = 0
    /\ response = [outcome |-> "pending", choices |-> <<>>]
    /\ chat_result = [kind |-> "running", value |-> [null |-> TRUE, text |-> <<>>],
                      exception |-> "", cause |-> ""]

IdleEstimator ==
    /\ HAS_TIKTOKEN = FALSE
    /\ encoding = "error"

InitEstimator ==
    \E cfg \in EstimatorConfigs : HAS_TIKTOKEN = cfg[1] /\ encoding = cfg[2]

InitChunk ==
    /\ pc = "chunk_loop"
    /\ InitEstimator
    /\ sorted_messages_df \in ChunkerInputs
    /\ max_tokens_per_chunk \in ChunkBudgets
    /\ row_idx = 0
    /\ chunks = <<>>
    /\ current_chunk_text = <<>>
    /\ IdleCompress
    /\ IdleSort
    /\ IdleScore
    /\ IdleFilter
    /\ IdleExtract
    /\ IdleCount
    /\ IdleMain
    /\ IdleClient
    /\ llm_calls = <<>>

\* the row the for loop is at, and its rendered line
NextLine == FormatLine(sorted_messages_df[row_idx + 1])

\* lines 216-217 and 243-244: "if current_chunk_text: chunks.append(current_chunk_text)"
FlushedChunks_Drop(cs, chunk_text) == cs
FlushedChunks(cs, chunk_text) ==
    IF chunk_text # <<>> THEN Append(cs, chunk_text) ELSE cs

\* lines 214-226: a single line over the budget
ChunkOversized ==
    /\ pc = "chunk_loop"
    /\ row_idx < Len(sorted_messages_df)
    /\ _estimate_token_count(NextLine) > max_tokens_per_chunk
    /\ chunks' = Append(FlushedChunks(chunks, current_chunk_text), NextLine)
    /\ current_chunk_text' = <<>>
    /\ row_idx' = row_idx + 1
    /\ UNCHANGED <<pc, estVars, sorted_messages_df, max_tokens_per_chunk, notChunkVars>>

ChunkIsFull_Always(chunk_text, line) == TRUE

\* line 231: the test that decides between flushing and appending
ChunkIsFull(chunk_text, line) ==
    _estimate_token_count(chunk_text) + _estimate_token_count(line) > max_tokens_per_chunk

\* lines 229-234: the accumulator is full, flush it and start a new one
ChunkFlush ==
    /\ pc = "chunk_loop"
    /\ row_idx < Len(sorted_messages_df)
    /\ _estimate_token_count(NextLine) <= max_tokens_per_chunk
    /\ current_chunk_text # <<>>
    /\ ChunkIsFull(current_chunk_text, NextLine)
    /\ chunks' = Append(chunks, current_chunk_text)
    /\ current_chunk_text' = NextLine
    /\ row_idx' = row_idx + 1
    /\ UNCHANGED <<pc, estVars, sorted_messages_df, max_tokens_per_chunk, notChunkVars>>

\* lines 235-237: append the line to the accumulator
ChunkAppend ==
    /\ pc = "chunk_loop"
    /\ row_idx < Len(sorted_messages_df)
    /\ _estimate_token_count(NextLine) <= max_tokens_per_chunk
    /\ current_chunk_text # <<>>
    /\ ~ChunkIsFull(current_chunk_text, NextLine)
    /\ current_chunk_text' = current_chunk_text \o <<NL>> \o NextLine
    /\ row_idx' = row_idx + 1
    /\ UNCHANGED <<pc, estVars, sorted_messages_df, max_tokens_per_chunk, chunks, notChunkVars>>

\* lines 238-240: the accumulator is empty
ChunkFirst ==
    /\ pc = "chunk_loop"
    /\ row_idx < Len(sorted_messages_df)
    /\ _estimate_token_count(NextLine) <= max_tokens_per_chunk
    /\ current_chunk_text = <<>>
    /\ current_chunk_text' = NextLine
    /\ row_idx' = row_idx + 1
    /\ UNCHANGED <<pc, estVars, sorted_messages_df, max_tokens_per_chunk, chunks, notChunkVars>>

\* lines 242-247: the loop is over, flush what is left and return
ChunkReturn ==
    /\ pc = "chunk_loop"
    /\ row_idx = Len(sorted_messages_df)
    /\ chunks' = FlushedChunks(chunks, current_chunk_text)
    /\ pc' = "chunk_returned"
    /\ UNCHANGED <<estVars, sorted_messages_df, max_tokens_per_chunk, row_idx, current_chunk_text, notChunkVars>>

NextChunk == ChunkOversized \/ ChunkFlush \/ ChunkAppend \/ ChunkFirst \/ ChunkReturn

SpecChunk == InitChunk /\ [][NextChunk]_vars

\* the rendered lines of the first n input rows
Lines(df, n) == [i \in 1..n |-> FormatLine(df[i])]

\* a chunk that is one utterance whose own line is over the budget
IsIsolatedOversized(chunk) ==
    /\ \E i \in 1..Len(sorted_messages_df) : chunk = FormatLine(sorted_messages_df[i])
    /\ _estimate_token_count(chunk) > max_tokens_per_chunk

\* C1: every chunk returned by chunk_messages_for_llm that is not a single
\* isolated oversized utterance has an estimated token count, taken on the
\* newline-joined chunk text as emitted, of at most max_tokens_per_chunk.
C1_ChunkTokenBound ==
    pc = "chunk_returned" =>
        \A k \in 1..Len(chunks) :
            \/ _estimate_token_count(chunks[k]) <= max_tokens_per_chunk
            \/ IsIsolatedOversized(chunks[k])

\* cs is lines cut into consecutive non-empty groups, each group newline-joined
RECURSIVE IsGrouping(_, _)
IsGrouping(cs, lines) ==
    IF cs = <<>> THEN lines = <<>>
    ELSE \E k \in 1..Len(lines) :
            /\ Head(cs) = Join(SubSeq(lines, 1, k), <<NL>>)
            /\ IsGrouping(Tail(cs), SubSeq(lines, k + 1, Len(lines)))

\* C2: the chunks, in chunk order, hold the utterance lines of the input stream
\* exactly once each and in input order: the chunk texts are the stream's lines
\* cut into consecutive groups (while the loop runs, chunks plus the accumulator
\* are such a cut of the rows consumed so far).
C2_ChunkCompleteness ==
    /\ pc = "chunk_loop" =>
          IsGrouping(FlushedChunks(chunks, current_chunk_text), Lines(sorted_messages_df, row_idx))
    /\ pc = "chunk_returned" =>
          IsGrouping(chunks, Lines(sorted_messages_df, Len(sorted_messages_df)))

\* a returned stream of three utterances cut into two chunks, one of two lines
C2_Witness ==
    /\ pc = "chunk_returned"
    /\ Len(sorted_messages_df) = 3
    /\ Len(chunks) = 2
    /\ \E k \in 1..2 : \E i \in 1..2 :
          chunks[k] = FormatLine(sorted_messages_df[i]) \o <<NL>> \o FormatLine(sorted_messages_df[i + 1])

\* the loop is about to take the row after row_idx, and takes it
TakesRow ==
    /\ pc = "chunk_loop"
    /\ row_idx < Len(sorted_messages_df)
    /\ row_idx' = row_idx + 1

\* cs is lines cut into consecutive groups in which a line whose own estimate
\* is over the budget is a group by itself
RECURSIVE IsIsolatingGrouping(_, _)
IsIsolatingGrouping(cs, lines) ==
    IF cs = <<>> THEN lines = <<>>
    ELSE \E k \in 1..Len(lines) :
            /\ Head(cs) = Join(SubSeq(lines, 1, k), <<NL>>)
            /\ \A j \in 1..k :
                  _estimate_token_count(lines[j]) > max_tokens_per_chunk => k = 1
            /\ IsIsolatingGrouping(Tail(cs), SubSeq(lines, k + 1, Len(lines)))

\* C19: on a line whose own estimate is over the budget the chunker emits the
\* non-empty accumulator as a chunk, then the line as a chunk of its own, and
\* empties the accumulator; in the chunks returned an oversized line never
\* shares a chunk with another line.
C19_OversizedIsolated ==
    /\ [][(TakesRow /\ _estimate_token_count(NextLine) > max_tokens_per_chunk) =>
             /\ chunks' = (IF current_chunk_text # <<>>
                           THEN chunks \o <<current_chunk_text, NextLine>>
                           ELSE chunks \o <<NextLine>>)
             /\ current_chunk_text' = <<>>]_vars
    /\ [](pc = "chunk_returned" =>
             IsIsolatingGrouping(chunks, Lines(sorted_messages_df, Len(sorted_messages_df))))

\* an oversized line between two lines that fit: three chunks
C19_Witness ==
    /\ pc = "chunk_returned"
    /\ Len(sorted_messages_df) = 3
    /\ Len(chunks) = 3
    /\ _estimate_token_count(chunks[1]) <= max_tokens_per_chunk
    /\ _estimate_token_count(chunks[2]) > max_tokens_per_chunk
    /\ _estimate_token_count(chunks[3]) <= max_tokens_per_chunk
    /\ _estimate_token_count(chunks[1] \o <<NL>> \o chunks[3]) <= max_tokens_per_chunk

\* C20: on a line that is not oversized, with a non-empty accumulator, the
\* chunker flushes the accumulator and starts a new one with the line exactly
\* when the estimate of accumulator and line joined by a newline exceeds the
\* budget, and appends the line otherwise.
C20_FlushOnCombinedEstimate ==
    [][(/\ TakesRow
        /\ _estimate_token_count(NextLine) <= max_tokens_per_chunk
        /\ current_chunk_text # <<>>) =>
          IF _estimate_token_count(current_chunk_text \o <<NL>> \o NextLine) > max_tokens_per_chunk
          THEN chunks' = Append(chunks, current_chunk_text) /\ current_chunk_text' = NextLine
          ELSE chunks' = chunks /\ current_chunk_text' = current_chunk_text \o <<NL>> \o NextLine]_vars

\* the first line of a chunk: its text up to the first newline
FirstLine(chunk) ==
    IF \E i \in 1..Len(chunk) : chunk[i] = NL
    THEN SubSeq(chunk, 1, (CHOOSE i \in 1..Len(chunk) :
                              chunk[i] = NL /\ \A j \in 1..(i - 1) : chunk[j] # NL) - 1)
    ELSE chunk

\* C24: every chunk returned holds at least one utterance, so there are at most
\* as many chunks as utterances, and between two consecutive chunks neither of
\* which is an isolated oversized utterance the boundary was needed: the
\* estimate of the earlier chunk plus the estimate of the first line of the
\* later chunk is over the budget.
C24_BoundariesNeeded ==
    pc = "chunk_returned" =>
        /\ IsGrouping(chunks, Lines(sorted_messages_df, Len(sorted_messages_df)))
        /\ Len(chunks) <= Len(sorted_messages_df)
        /\ \A k \in 1..(Len(chunks) - 1) :
              \/ IsIsolatedOversized(chunks[k])
              \/ IsIsolatedOversized(chunks[k + 1])
              \/ _estimate_token_count(chunks[k])
                    + _estimate_token_count(FirstLine(chunks[k + 1])) > max_tokens_per_chunk

\* three utterances that fit one by one: the first two share a chunk, and the
\* third did not fit with them
C24_Witness ==
    /\ pc = "chunk_returned"
    /\ Len(sorted_messages_df) = 3
    /\ Len(chunks) = 2
    /\ FirstLine(chunks[1]) # chunks[1]
    /\ FirstLine(chunks[2]) = chunks[2]
    /\ ~IsIsolatedOversized(chunks[2])
    /\ _estimate_token_count(chunks[1]) + _estimate_token_count(chunks[2]) > max_tokens_per_chunk

----------------------------------------------------------------------------
(* Sequencer: build_global_transcript_df, group_messages_by_session *)

Sessions == 1..2
SortRows == [session_id : Sessions, timestamp : Timestamps, role : Roles, content : {<<"x">>}]

Perms(n) == {p \in [1..n -> 1..n] : \A i \in 1..n : \A j \in 1..n : i # j => p[i] # p[j]}

\* DataFrame.sort_values(TIMESTAMP_COL) with the default kind="quicksort": the
\* rows come back in non-decreasing timestamp order, and the algorithm makes no
\* promise about rows with equal timestamps, so every order of ties is possible
\* (the rearrangements of df, counted row by row, that are in timestamp order)
SortValues(df) ==
    LET rows == {df[i] : i \in 1..Len(df)}
        Count(s, r) == Cardinality({i \in 1..Len(s) : s[i] = r})
    IN  {s \in [1..Len(df) -> rows] :
            /\ \A i \in 1..(Len(df) - 1) : s[i].timestamp <= s[i + 1].timestamp
            /\ \A r \in rows : Count(s, r) = Count(df, r)}

\* the rows of one session, in the order of df (a group of groupby)
Group(df, session_id) == SelectSeq(df, LAMBDA r : r.session_id = session_id)

SessionIds(df) == {df[i].session_id : i \in 1..Len(df)}

InitSort ==
    /\ pc = "sort_entry"
    /\ IdleEstimator
    /\ IdleChunk
    /\ IdleCompress
    /\ llm_calls = <<>>
    /\ messages_df \in UNION {[1..n -> SortRows] : n \in 0..MaxRows}
    /\ columns = {"session_id", "timestamp", "role", "content"}
    /\ transcript = <<>>
    /\ grouped = <<>>
    /\ IdleScore
    /\ IdleFilter
    /\ IdleExtract
    /\ IdleCount
    /\ IdleMain
    /\ IdleClient

\* line 150: messages_df.sort_values(TIMESTAMP_COL).reset_index(drop=True)
BuildGlobalTranscriptDf ==
    /\ pc = "sort_entry"
    /\ transcript' \in SortValues(messages_df)
    /\ pc' = "transcript_returned"
    /\ UNCHANGED <<notSortVars, messages_df, columns, grouped>>

\* lines 123-127: each group of groupby(SESSION_ID_COL) is sorted on its own
GroupMessagesBySession ==
    /\ pc = "sort_entry"
    /\ grouped' \in {g \in [SessionIds(messages_df) -> UNION {SortValues(Group(messages_df, sid)) : sid \in SessionIds(messages_df)}] :
                       \A sid \in SessionIds(messages_df) : g[sid] \in SortValues(Group(messages_df, sid))}
    /\ pc' = "grouped_returned"
    /\ UNCHANGED <<notSortVars, messages_df, columns, transcript>>

NextSort == BuildGlobalTranscriptDf \/ GroupMessagesBySession

SpecSort == InitSort /\ [][NextSort]_vars

\* df in timestamp order with the rows of equal timestamp in their input order
StableSorted(df) ==
    CHOOSE s \in SortValues(df) :
        \E p \in Perms(Len(df)) :
            /\ s = [i \in 1..Len(df) |-> df[p[i]]]
            /\ \A i \in 1..Len(df) : \A j \in 1..Len(df) :
                  (i < j /\ df[p[i]].timestamp = df[p[j]].timestamp) => p[i] < p[j]

\* C6: the sequencer returns the utterances in non-decreasing timestamp order
\* with utterances of equal timestamp in their input order (a stable sort), for
\* the global transcript and within each session.
C6_StableSequencing ==
    /\ pc = "transcript_returned" => transcript = StableSorted(messages_df)
    /\ pc = "grouped_returned" =>
          \A sid \in SessionIds(messages_df) :
              grouped[sid] = StableSorted(Group(messages_df, sid))

----------------------------------------------------------------------------
(* Text-generation client: LLMClient.chat_completion *)

\* "choice.message.content or ''": the text of a successful response
LLMResponses == {<<>>, Repeat("s", 8)}

\* one request served: the prompts sent and the text returned
LLMCall(system, user, answer) ==
    [system_prompt |-> system, user_prompt |-> user, response |-> answer]

\* message.content of a choice: a text, or None
None == [null |-> TRUE, text |-> <<>>]
Text(t) == [null |-> FALSE, text |-> t]
MessageContents == {None} \cup {Text(t) : t \in LLMResponses}

\* response.choices: the service answers with n = 1 choice by default, and the
\* client library hands over the list it was sent without checking its length
MaxChoices == 1
ResponseChoices ==
    UNION {[1..n -> MessageContents] : n \in 0..MaxChoices}

\* the exceptions completions.create raises, in the order of the except clauses
SDKErrors == {"AuthenticationError", "APIStatusError", "APIConnectionError", "Exception"}

\* the arguments of the three call sites: analyze_interviews.py lines 316-322,
\* 694-700 and 715-721
ClientSystemPrompts == {"analyze", "compress", "synthesize"}
ClientUserPrompts == {<<>>, <<"p">>, Repeat("q", 4)}

Running == [kind |-> "running", value |-> None, exception |-> "", cause |-> ""]
Returned(content) == [kind |-> "returned", value |-> content, exception |-> "", cause |-> ""]
Raised(exception, cause) ==
    [kind |-> "raised", value |-> None, exception |-> exception, cause |-> cause]

InitClient ==
    /\ pc = "client_entry"
    /\ system_prompt \in ClientSystemPrompts
    /\ user_prompt \in ClientUserPrompts
    /\ requests = 0
    /\ response = [outcome |-> "pending", choices |-> <<>>]
    /\ chat_result = Running
    /\ llm_calls = <<>>
    /\ IdleEstimator
    /\ IdleChunk
    /\ IdleCompress
    /\ IdleSort
    /\ IdleScore
    /\ IdleFilter
    /\ IdleExtract
    /\ IdleCount
    /\ IdleMain

\* lines 69-87: "raise RuntimeError(...) from exc" in each except clause
Wrapped_Bare(exc) == Raised("RuntimeError", "")
Wrapped(exc) == Raised("RuntimeError", exc)

\* line 90: "choice.message.content or ''"
ContentOrEmpty_Kept(content) == content
ContentOrEmpty(content) ==
    IF content.null \/ content.text = <<>> THEN Text(<<>>) ELSE content

\* lines 54-68: completions.create is called once and returns
ClientCreateReturns ==
    /\ pc = "client_entry"
    /\ \E choices \in ResponseChoices :
          response' = [outcome |-> "returned", choices |-> choices]
    /\ requests' = requests + 1
    /\ pc' = "client_responded"
    /\ UNCHANGED <<system_prompt, user_prompt, chat_result, llm_calls>>
    /\ UNCHANGED <<estVars, chunkVars, compVars, sortVars, scoreVars, filterVars,
                   extractVars, countVars, mainVars>>

\* lines 54 and 69-87: completions.create is called once and raises; the except
\* clause it lands in raises RuntimeError from it
ClientCreateRaises ==
    /\ pc = "client_entry"
    /\ \E exc \in SDKErrors :
          /\ response' = [outcome |-> exc, choices |-> <<>>]
          /\ chat_result' = Wrapped(exc)
    /\ requests' = requests + 1
    /\ pc' = "client_raised"
    /\ UNCHANGED <<system_prompt, user_prompt, llm_calls>>
    /\ UNCHANGED <<estVars, chunkVars, compVars, sortVars, scoreVars, filterVars,
                   extractVars, countVars, mainVars>>

\* lines 89-90: the first choice is there, its content or "" is returned
ClientReturn ==
    /\ pc = "client_responded"
    /\ response.choices # <<>>
    /\ chat_result' = Returned(ContentOrEmpty(response.choices[1]))
    /\ llm_calls' = Append(llm_calls,
                           LLMCall(system_prompt, user_prompt, chat_result'.value.text))
    /\ pc' = "client_returned"
    /\ UNCHANGED <<system_prompt, user_prompt, requests, response>>
    /\ UNCHANGED <<estVars, chunkVars, compVars, sortVars, scoreVars, filterVars,
                   extractVars, countVars, mainVars>>

\* line 89: "response.choices[0]" of an empty list raises IndexError, after
\* the try statement is left
ClientNoChoice ==
    /\ pc = "client_responded"
    /\ response.choices = <<>>
    /\ chat_result' = Raised("IndexError", "")
    /\ pc' = "client_raised"
    /\ UNCHANGED <<system_prompt, user_prompt, requests, response, llm_calls>>
    /\ UNCHANGED <<estVars, chunkVars, compVars, sortVars, scoreVars, filterVars,
                   extractVars, countVars, mainVars>>

NextClient ==
    \/ ClientCreateReturns
    \/ ClientCreateRaises
    \/ ClientReturn
    \/ ClientNoChoice

SpecClient == InitClient /\ [][NextClient]_vars

\* the invocation is over
ClientDone == pc \in {"client_returned", "client_raised"}

\* one call of completions.create per invocation, none after it; a text that is
\* returned is the first choice's content, "" when there is none; a failure of
\* the request is raised as RuntimeError with the original error as its cause
OneRequestNoRetry ==
    /\ requests <= 1
    /\ pc # "client_entry" => requests = 1
    /\ Len(llm_calls) <= 1
TextReturned ==
    chat_result.kind = "returned" =>
        /\ response.outcome = "returned"
        /\ ~chat_result.value.null
        /\ LET content == response.choices[1]
           IN  chat_result.value.text = (IF content.null THEN <<>> ELSE content.text)
        /\ llm_calls = <<LLMCall(system_prompt, user_prompt, chat_result.value.text)>>
FailureWrapped ==
    response.outcome \in SDKErrors =>
        /\ pc = "client_raised"
        /\ chat_result = Raised("RuntimeError", response.outcome)
        /\ llm_calls = <<>>

----------------------------------------------------------------------------
(* Hierarchical compressor: compress_chunk_summaries *)

DEFAULT_COMPRESSION_MAX_ROUNDS == 2
DEFAULT_COMPRESSION_BATCH_SIZE == 10

SummaryTexts  == {<<"a">>, Repeat("b", 8)}
SummaryCounts == {0, 1, 2, 10, 11}
GlobalBudgets == {0, 4, 30}

\* the input lists: n summaries that repeat a pattern of three texts
SummaryPatterns ==
    {<<a, b, b>> : a \in SummaryTexts, b \in SummaryTexts} \ {<<Repeat("b", 8), <<"a">>, <<"a">> >>}

SummaryList(n, pat) == [i \in 1..n |-> pat[((i - 1) % 3) + 1]]

\* <<chunk_summaries, max_tokens_for_global_prompt>>: the short lists under every
\* budget, and one list long enough for a third round to have something to do
CompressorInputs ==
    {<<SummaryList(n, pat), b>> : n \in SummaryCounts, pat \in SummaryPatterns, b \in GlobalBudgets}
    \cup {<<SummaryList(MaxSummaries, <<Repeat("b", 8), <<"a">>, <<"a">> >>), 4>>}

\* the compressor is run without a tokenizer and with the model's own encoding
CompressEstimators == {<<FALSE, "error">>, <<TRUE, "model">>}

Min(a, b) == IF a <= b THEN a ELSE b

\* lines 269-271 and 328-336: the level, joined, fits the global budget
FitsGlobalBudget_Strict(level) ==
    _estimate_token_count(Join(level, <<NL, NL>>)) < max_tokens_for_global_prompt
FitsGlobalBudget(level) ==
    _estimate_token_count(Join(level, <<NL, NL>>)) <= max_tokens_for_global_prompt

\* line 289: "for round_index in range(max_rounds)" has another round to give
RoundsLeft_OneMore == round_index <= DEFAULT_COMPRESSION_MAX_ROUNDS
RoundsLeft == round_index < DEFAULT_COMPRESSION_MAX_ROUNDS

\* line 296: batch = current[i : i + batch_size]
Batch_Short(level, i) ==
    SubSeq(level, i + 1, Min(i + DEFAULT_COMPRESSION_BATCH_SIZE - 1, Len(level)))
Batch(level, i) ==
    SubSeq(level, i + 1, Min(i + DEFAULT_COMPRESSION_BATCH_SIZE, Len(level)))

\* lines 300-314: the prompt of one batch; the fixed instruction text around
\* batch_text is written as one placeholder character
BatchPrompt(batch) ==
    <<"{compress-instructions}">>
        \o Join(batch, <<NL, NL, "-", "-", "-", NL, NL>>) \o <<NL>>

InitCompress ==
    /\ pc = "compress_entry"
    /\ \E cfg \in CompressEstimators : HAS_TIKTOKEN = cfg[1] /\ encoding = cfg[2]
    /\ IdleChunk
    /\ \E input \in CompressorInputs :
          chunk_summaries = input[1] /\ max_tokens_for_global_prompt = input[2]
    /\ current = <<>>
    /\ next_level = <<>>
    /\ round_index = 0
    /\ batch_start = 0
    /\ compressed = <<>>
    /\ llm_calls = <<>>
    /\ IdleSort
    /\ IdleScore
    /\ IdleFilter
    /\ IdleExtract
    /\ IdleCount
    /\ IdleMain
    /\ IdleClient

\* lines 265-277: nothing to compress, the input is returned
CompressNotNeeded ==
    /\ pc = "compress_entry"
    /\ chunk_summaries = <<>> \/ FitsGlobalBudget(chunk_summaries)
    /\ compressed' = chunk_summaries
    /\ pc' = "compress_returned"
    /\ UNCHANGED <<estVars, notCompVars, chunk_summaries, max_tokens_for_global_prompt,
                   current, next_level, round_index, batch_start, llm_calls>>

\* lines 279-289: over the budget, the loop is entered
CompressNeeded ==
    /\ pc = "compress_entry"
    /\ chunk_summaries # <<>>
    /\ ~FitsGlobalBudget(chunk_summaries)
    /\ current' = chunk_summaries
    /\ round_index' = 0
    /\ pc' = "compress_round"
    /\ UNCHANGED <<estVars, notCompVars, chunk_summaries, max_tokens_for_global_prompt,
                   next_level, batch_start, compressed, llm_calls>>

\* lines 289 and 339: range(max_rounds) is exhausted, the last level is returned
CompressRoundsExhausted ==
    /\ pc = "compress_round"
    /\ ~RoundsLeft
    /\ compressed' = current
    /\ pc' = "compress_returned"
    /\ UNCHANGED <<estVars, notCompVars, chunk_summaries, max_tokens_for_global_prompt,
                   current, next_level, round_index, batch_start, llm_calls>>

\* line 290: "if len(current) == 1"
SingleLeft_Never(level) == FALSE
SingleLeft(level) == Len(level) = 1

\* lines 290-292 and 339: one element is left, break
CompressSingleLeft ==
    /\ pc = "compress_round"
    /\ RoundsLeft
    /\ SingleLeft(current)
    /\ compressed' = current
    /\ pc' = "compress_returned"
    /\ UNCHANGED <<estVars, notCompVars, chunk_summaries, max_tokens_for_global_prompt,
                   current, next_level, round_index, batch_start, llm_calls>>

\* lines 294-295: a round starts
CompressRoundStart ==
    /\ pc = "compress_round"
    /\ RoundsLeft
    /\ ~SingleLeft(current)
    /\ next_level' = <<>>
    /\ batch_start' = 0
    /\ pc' = "compress_batch"
    /\ UNCHANGED <<estVars, notCompVars, chunk_summaries, max_tokens_for_global_prompt,
                   current, round_index, compressed, llm_calls>>

\* lines 295-323: one batch is summarised by one request that succeeds
CompressBatch ==
    /\ pc = "compress_batch"
    /\ batch_start < Len(current)
    /\ Batch(current, batch_start) # <<>>
    /\ \E summary \in LLMResponses :
          /\ next_level' = Append(next_level, summary)
          /\ llm_calls' = Append(llm_calls,
                                 LLMCall("compress", BatchPrompt(Batch(current, batch_start)), summary))
    /\ batch_start' = batch_start + DEFAULT_COMPRESSION_BATCH_SIZE
    /\ UNCHANGED <<pc, estVars, notCompVars, chunk_summaries, max_tokens_for_global_prompt,
                   current, round_index, compressed>>

\* lines 316-322 with llm_client.py 69-87: the request fails, RuntimeError propagates
CompressBatchRaises ==
    /\ pc = "compress_batch"
    /\ batch_start < Len(current)
    /\ Batch(current, batch_start) # <<>>
    /\ pc' = "compress_raised"
    /\ UNCHANGED <<estVars, notCompVars, compVars, llm_calls>>

\* lines 325-337 and 339: the round is over and the new level fits, break
CompressRoundFits ==
    /\ pc = "compress_batch"
    /\ batch_start >= Len(current)
    /\ FitsGlobalBudget(next_level)
    /\ current' = next_level
    /\ compressed' = next_level
    /\ pc' = "compress_returned"
    /\ UNCHANGED <<estVars, notCompVars, chunk_summaries, max_tokens_for_global_prompt,
                   next_level, round_index, batch_start, llm_calls>>

\* lines 325-337: the round is over and the new level is still over the budget
CompressRoundOver ==
    /\ pc = "compress_batch"
    /\ batch_start >= Len(current)
    /\ ~FitsGlobalBudget(next_level)
    /\ current' = next_level
    /\ round_index' = round_index + 1
    /\ pc' = "compress_round"
    /\ UNCHANGED <<estVars, notCompVars, chunk_summaries, max_tokens_for_global_prompt,
                   next_level, batch_start, compressed, llm_calls>>

NextCompress ==
    \/ CompressNotNeeded \/ CompressNeeded
    \/ CompressRoundsExhausted \/ CompressSingleLeft \/ CompressRoundStart
    \/ CompressBatch \/ CompressBatchRaises
    \/ CompressRoundFits \/ CompressRoundOver

SpecCompress == InitCompress /\ [][NextCompress]_vars

FairSpecCompress == SpecCompress /\ WF_vars(NextCompress)

CompressDone == pc \in {"compress_returned", "compress_raised"}

\* C3: when the input list is empty or its joined estimate is within the
\* budget, compress_chunk_summaries returns the input list unchanged and
\* no text-generation request is ever issued.
C3_NoCompressionBelowBudget ==
    (chunk_summaries = <<>> \/
        _estimate_token_count(Join(chunk_summaries, <<NL, NL>>)) <= max_tokens_for_global_prompt)
    => /\ llm_calls = <<>>
       /\ pc # "compress_raised"
       /\ pc = "compress_returned" => compressed = chunk_summaries

\* a list of several summaries whose estimate is exactly the budget was returned
C3_Witness ==
    /\ pc = "compress_returned"
    /\ Len(chunk_summaries) >= 2
    /\ _estimate_token_count(Join(chunk_summaries, <<NL, NL>>)) = max_tokens_for_global_prompt
    /\ compressed = chunk_summaries

\* C4: whatever the text-generation service returns, compress_chunk_summaries
\* ends (returns, or raises when a request fails), and a round only ever runs
\* with round_index in 0 .. max_rounds - 1, the counter growing by one from a
\* round to the next: at most max_rounds (2) rounds are executed.
C4_CompressionTerminates ==
    /\ [](pc = "compress_batch" => round_index < DEFAULT_COMPRESSION_MAX_ROUNDS)
    /\ [][pc = "compress_batch" /\ pc' = "compress_round" => round_index' = round_index + 1]_vars
    /\ <>CompressDone

\* both rounds ran on a list of more than a hundred summaries, and the loop
\* ended on the round limit with more than one element left
C4_Witness ==
    /\ pc = "compress_returned"
    /\ Len(chunk_summaries) > 100
    /\ round_index = DEFAULT_COMPRESSION_MAX_ROUNDS
    /\ Len(compressed) > 1
    /\ Len(llm_calls) > DEFAULT_COMPRESSION_BATCH_SIZE

\* C23: when compress_chunk_summaries returns a list whose joined estimate is
\* over the budget, either max_rounds rounds were executed or the list has
\* exactly one element; a single over-budget input summary is returned as it
\* is without any request, and no round runs on a level of length 1.
C23_OverBudgetReturn ==
    /\ (pc = "compress_returned" /\ ~FitsGlobalBudget(compressed)) =>
          (round_index = DEFAULT_COMPRESSION_MAX_ROUNDS \/ Len(compressed) = 1)
    /\ (Len(chunk_summaries) = 1 /\ ~FitsGlobalBudget(chunk_summaries)) =>
          /\ llm_calls = <<>>
          /\ pc \in {"compress_entry", "compress_round", "compress_returned"}
          /\ pc = "compress_returned" => compressed = chunk_summaries
    /\ pc = "compress_batch" => Len(current) >= 2

\* one round turned two summaries into one that is still over the budget, and
\* it was returned with a round to spare
C23_Witness ==
    /\ pc = "compress_returned"
    /\ Len(chunk_summaries) = 2
    /\ Len(compressed) = 1
    /\ ~FitsGlobalBudget(compressed)
    /\ round_index = 1
    /\ Len(llm_calls) = 1

\* ceil(n / batch_size)
BatchCount(n) ==
    (n + DEFAULT_COMPRESSION_BATCH_SIZE - 1) \div DEFAULT_COMPRESSION_BATCH_SIZE

\* C5: a round on a level of length n makes one request per consecutive batch
\* of batch_size elements, in order (the last batch possibly smaller), the new
\* level holds the responses in batch order, and the level that replaces the
\* old one at the end of the round has exactly ceil(n / batch_size) elements.
C5_RoundBatching ==
    /\ [](pc = "compress_batch" =>
            LET n    == Len(current)
                k    == Len(next_level)
                base == Len(llm_calls) - k
            IN  /\ batch_start = k * DEFAULT_COMPRESSION_BATCH_SIZE
                /\ k <= BatchCount(n)
                /\ base >= 0
                /\ \A j \in 1..k :
                      /\ llm_calls[base + j].user_prompt =
                            BatchPrompt(SubSeq(current,
                                               DEFAULT_COMPRESSION_BATCH_SIZE * (j - 1) + 1,
                                               Min(DEFAULT_COMPRESSION_BATCH_SIZE * j, n)))
                      /\ llm_calls[base + j].response = next_level[j])
    /\ [][pc = "compress_batch" /\ pc' \in {"compress_round", "compress_returned"} =>
            /\ current' = next_level
            /\ Len(current') = BatchCount(Len(current))]_vars

\* a first round turned eleven summaries into two, and the second round is due
C5_Witness ==
    /\ pc = "compress_round"
    /\ round_index = 1
    /\ Len(chunk_summaries) = 11
    /\ Len(current) = 2
    /\ Len(llm_calls) = 2

----------------------------------------------------------------------------
(* Relevance scorer: calculate_relevance_score (message_filter.py) *)

MaxFragments == 2                \* most fragments an input text of the scorer is built from
MaxEvaluations == 2              \* evaluations of the scorer on one text

\* BILL_RELATED_KEYWORDS, in list order; a character outside ASCII is written
\* as u and its code point
BILL_RELATED_KEYWORDS == <<
    <<"u6cd5", "u6848">>,  \* 法案
    <<"u6cd5", "u5f8b">>,  \* 法律
    <<"u5236", "u5ea6">>,  \* 制度
    <<"u898f", "u5236">>,  \* 規制
    <<"u653f", "u7b56">>,  \* 政策
    <<"u6cd5", "u6574", "u5099">>,  \* 法整備
    <<"u7acb", "u6cd5">>,  \* 立法
    <<"u6761", "u6587">>,  \* 条文
    <<"u6539", "u6b63">>,  \* 改正
    <<"u65bd", "u884c">>,  \* 施行
    <<"u8239", "u8377", "u8a3c", "u5238">>,  \* 船荷証券
    <<"B", "/", "L">>,  \* B/L
    <<"B", "L">>,  \* BL
    <<"b", "i", "l", "l", " ", "o", "f", " ", "l", "a", "d", "i", "n", "g">>,  \* bill of lading
    <<"u96fb", "u5b50", "u5316">>,  \* 電子化
    <<"u30c7", "u30b8", "u30bf", "u30eb", "u5316">>,  \* デジタル化
    <<"u30da", "u30fc", "u30d1", "u30fc", "u30ec", "u30b9">>,  \* ペーパーレス
    <<"u8cbf", "u6613">>,  \* 貿易
    <<"u8f38", "u51fa">>,  \* 輸出
    <<"u8f38", "u5165">>,  \* 輸入
    <<"u901a", "u95a2">>,  \* 通関
    <<"u7a0e", "u95a2">>,  \* 税関
    <<"u8377", "u4e3b">>,  \* 荷主
    <<"u904b", "u9001">>,  \* 運送
    <<"u8239", "u4f1a", "u793e">>,  \* 船会社
    <<"u30d5", "u30a9", "u30ef", "u30fc", "u30c0", "u30fc">>,  \* フォワーダー
    <<"u7269", "u6d41">>,  \* 物流
    <<"u56fd", "u969b", "u53d6", "u5f15">>,  \* 国際取引
    <<"u5b9f", "u52d9">>,  \* 実務
    <<"u696d", "u52d9">>,  \* 業務
    <<"u624b", "u7d9a", "u304d">>,  \* 手続き
    <<"u4f5c", "u696d">>,  \* 作業
    <<"u30d7", "u30ed", "u30bb", "u30b9">>,  \* プロセス
    <<"u30d5", "u30ed", "u30fc">>,  \* フロー
    <<"u904b", "u7528">>,  \* 運用
    <<"u30b7", "u30b9", "u30c6", "u30e0">>,  \* システム
    <<"u30bb", "u30ad", "u30e5", "u30ea", "u30c6", "u30a3">>,  \* セキュリティ
    <<"u30ea", "u30b9", "u30af">>,  \* リスク
    <<"u30b3", "u30b9", "u30c8">>,  \* コスト
    <<"u52b9", "u7387">>,  \* 効率
    <<"u8ab2", "u984c">>,  \* 課題
    <<"u554f", "u984c">>,  \* 問題
    <<"u61f8", "u5ff5">>,  \* 懸念
    <<"u4e0d", "u5b89">>,  \* 不安
    <<"u6539", "u5584">>,  \* 改善
    <<"u63d0", "u6848">>,  \* 提案
    <<"u5bfe", "u7b56">>,  \* 対策
    <<"u691c", "u8a0e">>,  \* 検討
    <<"u8cdb", "u6210">>,  \* 賛成
    <<"u53cd", "u5bfe">>,  \* 反対
    <<"u5fc5", "u8981">>,  \* 必要
    <<"u4e0d", "u8981">>,  \* 不要
    <<"u6709", "u52b9">>,  \* 有効
    <<"u7121", "u52b9">>  \* 無効
>>

\* ^(はい|いいえ|うん|ええ|そう|なるほど|わかりました|了解|OK)$
AcknowledgementWords == {
    <<"u306f", "u3044">>,  \* はい
    <<"u3044", "u3044", "u3048">>,  \* いいえ
    <<"u3046", "u3093">>,  \* うん
    <<"u3048", "u3048">>,  \* ええ
    <<"u305d", "u3046">>,  \* そう
    <<"u306a", "u308b", "u307b", "u3069">>,  \* なるほど
    <<"u308f", "u304b", "u308a", "u307e", "u3057", "u305f">>,  \* わかりました
    <<"u4e86", "u89e3">>,  \* 了解
    <<"O", "K">>  \* OK
}

\* ^(あ+|え+|お+|う+)$
FillerVowels == {"u3042", "u3048", "u304a", "u3046"}  \* あ え お う

\* ^(知らない|分からない|わからない|聞いたことがない|初めて聞)([。．.!！?？\s]*)$
DisclaimerWords == {
    <<"u77e5", "u3089", "u306a", "u3044">>,  \* 知らない
    <<"u5206", "u304b", "u3089", "u306a", "u3044">>,  \* 分からない
    <<"u308f", "u304b", "u3089", "u306a", "u3044">>,  \* わからない
    <<"u805e", "u3044", "u305f", "u3053", "u3068", "u304c", "u306a", "u3044">>,  \* 聞いたことがない
    <<"u521d", "u3081", "u3066", "u805e">>  \* 初めて聞
}
DisclaimerTail == {"u3002", "uff0e", ".", "!", "uff01", "?", "uff1f"}  \* 。．.!！?？

\* the characters c of the model with "\u4e00" <= c <= "\u9fff"
Kanji == {
    "u4e0d", "u4e3b", "u4e86", "u4f1a", "u4f5c", "u5099", "u5165", "u51fa",
    "u5206", "u521d", "u5236", "u5238", "u52b9", "u52d9", "u5316", "u53cd",
    "u53d6", "u554f", "u5584", "u56fd", "u5b50", "u5b89", "u5b9f", "u5bfe",
    "u5ea6", "u5f15", "u5f8b", "u5fc5", "u5ff5", "u61f8", "u6210", "u624b",
    "u63d0", "u6539", "u653f", "u6574", "u6587", "u65b0", "u65bd", "u6613",
    "u6709", "u6761", "u6848", "u691c", "u696d", "u6b63", "u6cd5", "u6d41",
    "u7121", "u7269", "u7387", "u7528", "u77e5", "u793e", "u7a0e", "u7acb",
    "u7b56", "u7d9a", "u805e", "u8239", "u8377", "u884c", "u8981", "u898f",
    "u89e3", "u8a0e", "u8a3c", "u8ab2", "u8cbf", "u8cdb", "u8f38", "u9001",
    "u901a", "u904b", "u95a2", "u969b", "u96fb", "u984c"
}


\* the characters str.strip() and the pattern class \s remove or accept
Whitespace == {" ", "\t", "\n", "u3000"}

UpperCase == <<"A", "B", "C", "D", "E", "F", "G", "H", "I", "J", "K", "L", "M",
               "N", "O", "P", "Q", "R", "S", "T", "U", "V", "W", "X", "Y", "Z">>
LowerCase == <<"a", "b", "c", "d", "e", "f", "g", "h", "i", "j", "k", "l", "m",
               "n", "o", "p", "q", "r", "s", "t", "u", "v", "w", "x", "y", "z">>
UpperSet == {UpperCase[i] : i \in 1..26}

\* the pattern class [a-zA-Z0-9]
AsciiAlnum == UpperSet \cup {LowerCase[i] : i \in 1..26} \cup {Digits[i] : i \in 1..10}

\* str.strip(): the text without its leading and trailing whitespace
Strip(text) ==
    IF \A i \in 1..Len(text) : text[i] \in Whitespace THEN <<>>
    ELSE LET first == CHOOSE i \in 1..Len(text) :
                          text[i] \notin Whitespace /\ \A j \in 1..(i - 1) : text[j] \in Whitespace
             back  == CHOOSE k \in 0..(Len(text) - 1) :
                          /\ text[Len(text) - k] \notin Whitespace
                          /\ \A j \in 0..(k - 1) : text[Len(text) - j] \in Whitespace
         IN  SubSeq(text, first, Len(text) - back)

\* str.lower(): only the cased letters change
LowerChar(c) ==
    IF c \in UpperSet THEN LowerCase[CHOOSE i \in 1..26 : UpperCase[i] = c] ELSE c

Lower(text) == [i \in 1..Len(text) |-> LowerChar(text[i])]

\* IRRELEVANT_PATTERNS[0]: the whole text is one acknowledgement word
MatchesAcknowledgement(content) == content \in AcknowledgementWords

\* IRRELEVANT_PATTERNS[1]: the whole text is one filler vowel repeated
MatchesFiller(content) ==
    /\ Len(content) >= 1
    /\ content[1] \in FillerVowels
    /\ \A i \in 1..Len(content) : content[i] = content[1]

\* IRRELEVANT_PATTERNS[2]: a disclaimer followed only by punctuation and whitespace
MatchesDisclaimer(content) ==
    \E w \in DisclaimerWords :
        /\ Len(content) >= Len(w)
        /\ SubSeq(content, 1, Len(w)) = w
        /\ \A i \in (Len(w) + 1)..Len(content) : content[i] \in DisclaimerTail \cup Whitespace

\* lines 113-120: any pattern matches the stripped (not lowered) text
MatchesIrrelevant(content) ==
    MatchesAcknowledgement(content) \/ MatchesFiller(content) \/ MatchesDisclaimer(content)

IsShort_Four(content) == Len(content) < 4

\* line 123: len(content) < 5
IsShort(content) == Len(content) < 5

\* the positions of a text where some keyword can begin (the first characters
\* of the lowered keywords); a search for a keyword looks only there
KeywordInitials == {LowerChar(BILL_RELATED_KEYWORDS[k][1]) : k \in 1..Len(BILL_RELATED_KEYWORDS)}
KeywordStarts(text) == {i \in 1..Len(text) : text[i] \in KeywordInitials}

\* word at position i of text
OccursAt(text, word, i) ==
    /\ i + Len(word) - 1 <= Len(text)
    /\ text[i] = word[1]
    /\ SubSeq(text, i, i + Len(word) - 1) = word

\* "word in text"
Contains(text, starts, word) == \E i \in starts : OccursAt(text, word, i)

\* (?<![class])word(?![class]).search(text)
ContainsBounded(text, starts, word, class) ==
    \E i \in starts :
        /\ OccursAt(text, word, i)
        /\ (i = 1 \/ text[i - 1] \notin class)
        /\ (i + Len(word) - 1 = Len(text) \/ text[i + Len(word)] \notin class)

\* lines 128-156: the test one keyword is put to
KeywordMatches(keyword, content_lower, starts) ==
    LET keyword_lower == Lower(keyword) IN
    IF \E i \in 1..Len(keyword_lower) : keyword_lower[i] \in {"/", " "}
    THEN Contains(content_lower, starts, keyword_lower)
    ELSE IF Len(keyword_lower) <= 3 /\ \E i \in 1..Len(keyword_lower) : keyword_lower[i] \in Kanji
    THEN ContainsBounded(content_lower, starts, keyword_lower, Kanji)
    ELSE IF Len(keyword_lower) <= 3
    THEN ContainsBounded(content_lower, starts, keyword_lower, AsciiAlnum)
    ELSE Contains(content_lower, starts, keyword_lower)

\* lines 127-156: matched_keywords
MatchedKeywords(content_lower) ==
    LET starts == KeywordStarts(content_lower)
    IN  SelectSeq(BILL_RELATED_KEYWORDS, LAMBDA keyword : KeywordMatches(keyword, content_lower, starts))

\* A score is written in units of 0.0001.  The code adds binary floating-point
\* numbers; the sums below do not round to the double of their decimal value
\* but to the next double above it (0.1 + 0.2 is 0.30000000000000004), which
\* is written as one unit above.  Every other sum the code can form is exact
\* (0.8500000000000001 + 0.1 is 0.9500000000000001: the unit is carried).
RoundedUp == {<<1000, 2000>>, <<4000, 2000>>, <<8000, 500>>, <<8000, 1500>>}

FloatAdd(a, b) == a + b + (IF <<a, b>> \in RoundedUp THEN 1 ELSE 0)

\* lines 160-169: base_score
BaseScore(keyword_count) ==
    IF keyword_count = 0 THEN 1000
    ELSE IF keyword_count = 1 THEN 4000
    ELSE IF keyword_count = 2 THEN 6000
    ELSE Min(FloatAdd(8000, (keyword_count - 3) * 500), 10000)

LengthBonus_Additive(content) ==
    (IF Len(content) >= 100 THEN 1000 ELSE 0) + (IF Len(content) >= 200 THEN 2000 ELSE 0)

\* lines 173-177: length_bonus
LengthBonus(content) ==
    IF Len(content) >= 200 THEN 2000
    ELSE IF Len(content) >= 100 THEN 1000
    ELSE 0

Clamp_None(score) == score

\* line 179: min(base_score + length_bonus, 1.0)
Clamp(score) == Min(score, 10000)

\* lines 126-179: the score of a text none of the early returns takes
KeywordScore(content) ==
    Clamp(FloatAdd(BaseScore(Len(MatchedKeywords(Lower(content)))), LengthBonus(content)))

\* lines 95-189
calculate_relevance_score(text) ==
    LET content == Strip(text) IN
    IF content = <<>> THEN 0
    ELSE IF MatchesIrrelevant(content) THEN 1000
    ELSE IF IsShort(content) THEN 2000
    ELSE KeywordScore(content)

\* the input texts: up to MaxFragments fragments, alone or followed by filler
\* up to the lengths around the two thresholds of the length bonus
ScoreFragments == {
    <<"u306f", "u3044">>,  \* はい
    <<"u306a", "u308b", "u307b", "u3069">>,  \* なるほど
    <<"O", "K">>,  \* OK
    <<"u3042">>,  \* あ
    <<"u77e5", "u3089", "u306a", "u3044">>,  \* 知らない
    <<"u3002">>,  \* 。
    <<" ">>,  \* ' '
    <<"u6cd5", "u6848">>,  \* 法案
    <<"B", "L">>,  \* BL
    <<"u30d5", "u30ed", "u30fc">>,  \* フロー
    <<"B", "/", "L">>,  \* B/L
    <<"u30b3", "u30b9", "u30c8", "u30b3">>,  \* コストコ
    <<"u305d", "u3046", "u3067", "u3059">>,  \* そうです
    <<"u6cd5", "u6848", "u3068", "u5236", "u5ea6", "u3068", "u8cbf", "u6613", "u3068", "u901a", "u95a2">>,  \* 法案と制度と貿易と通関
    <<"u8239", "u8377", "u8a3c", "u5238", "u3068", "u65bd", "u884c", "u3068", "u7269", "u6d41">>  \* 船荷証券と施行と物流
}

Filler == "u306e"                \* の
PadLengths == {0, 99, 100, 199, 200}

PadTo(text, n) == IF Len(text) >= n THEN text ELSE text \o Repeat(Filler, n - Len(text))

ScoreInputs ==
    {PadTo(Join(fs, <<>>), n) :
        fs \in UNION {[1..k -> ScoreFragments] : k \in 0..MaxFragments}, n \in PadLengths}

InitScore ==
    /\ pc = "score_entry"
    /\ message_content \in ScoreInputs
    /\ returned_scores = <<>>
    /\ matched_keywords = <<>>
    /\ IdleEstimator
    /\ IdleChunk
    /\ IdleCompress
    /\ llm_calls = <<>>
    /\ IdleSort
    /\ IdleFilter
    /\ IdleExtract
    /\ IdleCount
    /\ IdleMain
    /\ IdleClient

ScoreReturn(score, matched) ==
    /\ returned_scores' = Append(returned_scores, score)
    /\ matched_keywords' = matched
    /\ pc' = "score_returned"
    /\ UNCHANGED <<notScoreVars, message_content>>

\* lines 106-107
ScoreEmpty ==
    /\ pc = "score_entry"
    /\ Strip(message_content) = <<>>
    /\ ScoreReturn(0, <<>>)

\* lines 113-120
ScoreIrrelevant ==
    /\ pc = "score_entry"
    /\ Strip(message_content) # <<>>
    /\ MatchesIrrelevant(Strip(message_content))
    /\ ScoreReturn(1000, <<>>)

\* lines 123-124
ScoreShort ==
    /\ pc = "score_entry"
    /\ Strip(message_content) # <<>>
    /\ ~MatchesIrrelevant(Strip(message_content))
    /\ IsShort(Strip(message_content))
    /\ ScoreReturn(2000, <<>>)

\* lines 126-189
ScoreKeywords ==
    /\ pc = "score_entry"
    /\ Strip(message_content) # <<>>
    /\ ~MatchesIrrelevant(Strip(message_content))
    /\ ~IsShort(Strip(message_content))
    /\ \E matched \in {MatchedKeywords(Lower(Strip(message_content)))} :
          ScoreReturn(Clamp(FloatAdd(BaseScore(Len(matched)),
                                     LengthBonus(Strip(message_content)))),
                      matched)

\* the caller evaluates the same text once more
ScoreAgain ==
    /\ pc = "score_returned"
    /\ Len(returned_scores) < MaxEvaluations
    /\ pc' = "score_entry"
    /\ UNCHANGED <<notScoreVars, scoreVars>>

NextScore == ScoreEmpty \/ ScoreIrrelevant \/ ScoreShort \/ ScoreKeywords \/ ScoreAgain

SpecScore == InitScore /\ [][NextScore]_vars

\* the keywords a text holds as plain substrings, whatever the matcher does
HoldsKeyword(content) ==
    \E k \in 1..Len(BILL_RELATED_KEYWORDS) :
        Contains(Lower(content), 1..Len(content), Lower(BILL_RELATED_KEYWORDS[k]))

\* C8 (as stated): every text that is 4 characters long after trimming and
\* holds no domain keyword is scored exactly 0.2.
C8_FourCharsScorePointTwo ==
    (/\ pc = "score_returned"
     /\ Len(Strip(message_content)) = 4
     /\ ~HoldsKeyword(Strip(message_content)))
    => returned_scores[Len(returned_scores)] = 2000

\* C8 (amended): every text that is 4 characters long after trimming, holds no
\* domain keyword and matches none of the irrelevant patterns is scored exactly
\* 0.2; a 4-character text that matches an irrelevant pattern is scored 0.1.
C8_FourCharsNotIrrelevant ==
    (/\ pc = "score_returned"
     /\ Len(Strip(message_content)) = 4
     /\ ~HoldsKeyword(Strip(message_content)))
    => returned_scores[Len(returned_scores)] =
          (IF MatchesIrrelevant(Strip(message_content)) THEN 1000 ELSE 2000)

C8_Witness ==
    /\ pc = "score_returned"
    /\ Len(Strip(message_content)) = 4
    /\ Len(message_content) > 4
    /\ ~HoldsKeyword(Strip(message_content))
    /\ ~MatchesIrrelevant(Strip(message_content))
    /\ returned_scores = <<2000>>

Katakana == {
    "u30a3", "u30a9", "u30ad", "u30af", "u30b3", "u30b7", "u30b8", "u30b9", "u30bb",
    "u30bf", "u30c0", "u30c6", "u30c7", "u30c8", "u30d1", "u30d5", "u30d7", "u30da",
    "u30e0", "u30e5", "u30ea", "u30eb", "u30ec", "u30ed", "u30ef", "u30fc"
}

\* the characters that continue a word that has c at its edge: the characters
\* of c's own script (none for punctuation and hiragana)
WordClass(c) ==
    IF c \in Kanji THEN Kanji
    ELSE IF c \in Katakana THEN Katakana
    ELSE IF c \in AsciiAlnum THEN AsciiAlnum
    ELSE {}

\* word occurs in text as a word of its own, not inside a longer term
OccursAsWord(text_in, word) ==
    \E i \in 1..Len(text_in) :
        /\ OccursAt(text_in, word, i)
        /\ (i = 1 \/ text_in[i - 1] \notin WordClass(word[1]))
        /\ (i + Len(word) - 1 = Len(text_in)
              \/ text_in[i + Len(word)] \notin WordClass(word[Len(word)]))

\* the text the keywords were looked for in
ScoredText == Lower(Strip(message_content))

\* the keyword is in the list the evaluation built
IsCounted(keyword) == \E j \in 1..Len(matched_keywords) : matched_keywords[j] = keyword

\* C21: a keyword of at most 3 characters ('B/L', 'BL', the short kanji and
\* katakana keywords) is counted only when it occurs as a word of its own,
\* never when it occurs only inside a longer term; a longer keyword is counted
\* exactly when it occurs anywhere in the lowered text; no keyword is counted
\* twice.
C21_ShortKeywordsOnBoundary ==
    (pc = "score_returned" /\ ~IsShort(Strip(message_content))
        /\ ~MatchesIrrelevant(Strip(message_content))) =>
        /\ \A k \in 1..Len(BILL_RELATED_KEYWORDS) :
              LET keyword == BILL_RELATED_KEYWORDS[k] IN
              IF Len(keyword) <= 3
              THEN IsCounted(keyword) => OccursAsWord(ScoredText, Lower(keyword))
              ELSE IsCounted(keyword) <=>
                      Contains(ScoredText, 1..Len(ScoredText), Lower(keyword))
        /\ \A i \in 1..Len(matched_keywords) : \A j \in 1..Len(matched_keywords) :
              i # j => matched_keywords[i] # matched_keywords[j]

\* the reference function of the scorer: the early results in their order, then
\* base(k) + bonus(L) clamped to 1.0, the sum being a sum of doubles
ReferenceBase(k) ==
    CASE k = 0 -> 1000
      [] k = 1 -> 4000
      [] k = 2 -> 6000
      [] OTHER -> Min(FloatAdd(8000, 500 * (k - 3)), 10000)

ReferenceBonus(L) ==
    CASE L >= 200 -> 2000
      [] L >= 100 /\ L < 200 -> 1000
      [] OTHER -> 0

ReferenceScore(text_in, k) ==
    LET trimmed == Strip(text_in) IN
    CASE trimmed = <<>> -> 0
      [] trimmed # <<>> /\ MatchesIrrelevant(trimmed) -> 1000
      [] trimmed # <<>> /\ ~MatchesIrrelevant(trimmed) /\ Len(trimmed) < 5 -> 2000
      [] OTHER -> Min(FloatAdd(ReferenceBase(k), ReferenceBonus(Len(trimmed))), 10000)

----------------------------------------------------------------------------
(* Relevance filter: filter_messages_by_relevance (message_filter.py) *)

MaxFilterRows == 3               \* most rows of a frame given to the filter

DEFAULT_RELEVANCE_THRESHOLD == 3000
content_col == "content"

\* one content per score the filter has to tell apart: 0.0, 0.1, 0.2,
\* 0.30000000000000004, 0.4 and 1.0
FilterContents ==
    { <<>>,
      <<"u306f", "u3044">>,
      <<"u305d", "u3046", "u3067", "u3059">>,
      PadTo(<<>>, 200),
      PadTo(<<"u6cd5", "u6848">>, 99),
      PadTo(<<"u6cd5", "u6848", "u3068", "u5236", "u5ea6", "u3068", "u8cbf", "u6613", "u3068", "u901a", "u95a2">>, 200) }

FilterThresholds == {0, 2000, DEFAULT_RELEVANCE_THRESHOLD, 4000}

\* frames with the content column, and frames that keep the text under another name
FilterColumnSets == {{"role", "content"}, {"role", "text"}}

\* the frames of n rows over the columns cols; the index is the RangeIndex
FilterFrames(cols, n) ==
    {[i \in 1..n |-> [c \in cols \cup {"index"} |->
                         IF c = "index" THEN i - 1 ELSE IF c = "role" THEN <<"u">> ELSE texts[i]]] :
        texts \in [1..n -> FilterContents]}

InitFilter ==
    /\ pc = "filter_entry"
    /\ columns \in FilterColumnSets
    /\ messages_df \in UNION {FilterFrames(columns, n) : n \in 0..MaxFilterRows}
    /\ threshold \in FilterThresholds
    /\ relevance_scores = <<>>
    /\ filtered_df = <<>>
    /\ total_messages = 0
    /\ filtered_messages = 0
    /\ excluded_messages = 0
    /\ transcript = <<>>
    /\ grouped = <<>>
    /\ IdleEstimator
    /\ IdleChunk
    /\ IdleCompress
    /\ llm_calls = <<>>
    /\ IdleScore
    /\ IdleExtract
    /\ IdleCount
    /\ IdleMain
    /\ IdleClient

KeepRow_Inclusive(score, limit) == score >= limit
KeepRow_Below(score, limit) == score < limit

\* line 218: relevance_scores > threshold
KeepRow(score, limit) == score > limit

\* df[mask]: the rows whose mask is true, in the order of df
BooleanMask(df, mask) ==
    LET kept == SelectSeq([i \in 1..Len(df) |-> i], LAMBDA i : mask[i])
    IN  [j \in 1..Len(kept) |-> df[kept[j]]]

SkippedFrame_Empty(df) == <<>>

\* line 212: return messages_df
SkippedFrame(df) == df

\* lines 207-212: without the content column the frame is returned as it is
FilterSkip ==
    /\ pc = "filter_entry"
    /\ content_col \notin columns
    /\ filtered_df' = SkippedFrame(messages_df)
    /\ pc' = "filter_returned"
    /\ UNCHANGED <<notFilterVars, messages_df, columns, threshold, relevance_scores,
                   total_messages, filtered_messages, excluded_messages>>

\* lines 214-254
FilterApply ==
    /\ pc = "filter_entry"
    /\ content_col \in columns
    /\ relevance_scores' =
          [i \in 1..Len(messages_df) |-> calculate_relevance_score(messages_df[i][content_col])]
    /\ filtered_df' =
          BooleanMask(messages_df,
                      [i \in 1..Len(messages_df) |-> KeepRow(relevance_scores'[i], threshold)])
    /\ total_messages' = Len(messages_df)
    /\ filtered_messages' = Len(filtered_df')
    /\ excluded_messages' = total_messages' - filtered_messages'
    /\ pc' = "filter_returned"
    /\ UNCHANGED <<notFilterVars, messages_df, columns, threshold>>

NextFilter == FilterSkip \/ FilterApply

SpecFilter == InitFilter /\ [][NextFilter]_vars

Retained(df, cols, limit) ==
    IF content_col \notin cols THEN df
    ELSE BooleanMask(df, [i \in 1..Len(df) |->
                             KeepRow(calculate_relevance_score(df[i][content_col]), limit)])

RowsOf(df) == {df[i] : i \in 1..Len(df)}

C16_NoContentColumnNoOp ==
    (content_col \notin columns) =>
        /\ pc = "filter_returned" =>
              /\ filtered_df = messages_df
              /\ relevance_scores = <<>>
        /\ pc \in {"filter_entry", "filter_returned"}
        /\ ENABLED NextFilter \/ pc = "filter_returned"

\* a frame of three rows under another column name, one of them an empty text
C16_Witness ==
    /\ pc = "filter_returned"
    /\ content_col \notin columns
    /\ Len(messages_df) = 3
    /\ messages_df[2]["text"] = <<>>
    /\ filtered_df = messages_df

----------------------------------------------------------------------------
(* Tagged-section parser: extract_tagged_section (analyze_interviews.py) *)

MaxPieces == 4                   \* most pieces a response text is built from

overall_summary == <<"o", "v", "e", "r", "a", "l", "l", "_", "s", "u", "m", "m", "a", "r", "y">>
overlooked_points == <<"o", "v", "e", "r", "l", "o", "o", "k", "e", "d", "_", "p", "o", "i", "n", "t", "s">>
suggestions == <<"s", "u", "g", "g", "e", "s", "t", "i", "o", "n", "s">>

\* the tag names main() asks for (lines 723-725)
Tags == {overall_summary, overlooked_points, suggestions}

OpenTag(name)  == <<"[">> \o name \o <<"]">>
CloseTag(name) == <<"[", "/">> \o name \o <<"]">>

\* the response texts: up to MaxPieces pieces, and a response that holds an
\* overall_summary section and a suggestions section
ResponsePieces ==
    { OpenTag(overall_summary), CloseTag(overall_summary),
      OpenTag(suggestions), CloseTag(suggestions),
      <<"A">>, <<" ", "B", "\n">>, <<"[">> }

ExampleResponse ==
    OpenTag(overall_summary) \o <<"A">> \o CloseTag(overall_summary)
        \o OpenTag(suggestions) \o <<"B">> \o CloseTag(suggestions)

ResponseTexts ==
    {Join(ps, <<>>) : ps \in UNION {[1..k -> ResponsePieces] : k \in 0..MaxPieces}}
        \cup {ExampleResponse}

\* the positions of text at which word begins
Occurrences(text, word) ==
    {i \in 1..(Len(text) - Len(word) + 1) :
        text[i] = word[1] /\ SubSeq(text, i, i + Len(word) - 1) = word}

SetMin(S) == CHOOSE x \in S : \A y \in S : x <= y
SetMax(S) == CHOOSE x \in S : \A y \in S : x >= y

\* where a match of \[tag\](.*?)\[/tag\] can begin: an opening tag with a
\* closing tag somewhere after it (with re.DOTALL the dot matches every character)
MatchStarts(text, name) ==
    {i \in Occurrences(text, OpenTag(name)) :
        \E c \in Occurrences(text, CloseTag(name)) : c >= i + Len(OpenTag(name))}

GroupEnd_Greedy(closes) == SetMax(closes)

\* (.*?) is lazy: the group ends at the nearest closing tag
GroupEnd(closes) == SetMin(closes)

\* pattern.search(text): the leftmost match, as <<start, end>> of group 1
Search(text, name) ==
    LET i == SetMin(MatchStarts(text, name))
        from == i + Len(OpenTag(name))
        c == GroupEnd({c \in Occurrences(text, CloseTag(name)) : c >= from})
    IN  <<from, c - 1>>

InitExtract ==
    /\ pc = "extract_entry"
    /\ response_text \in ResponseTexts
    /\ tag \in Tags
    /\ section = <<>>
    /\ IdleEstimator
    /\ IdleChunk
    /\ IdleCompress
    /\ llm_calls = <<>>
    /\ IdleSort
    /\ IdleScore
    /\ IdleFilter
    /\ IdleCount
    /\ IdleMain
    /\ IdleClient

\* lines 519-522, a match: match.group(1).strip()
ExtractMatch ==
    /\ pc = "extract_entry"
    /\ MatchStarts(response_text, tag) # {}
    /\ section' = LET m == Search(response_text, tag)
                  IN  Strip(SubSeq(response_text, m[1], m[2]))
    /\ pc' = "extract_returned"
    /\ UNCHANGED <<notExtractVars, response_text, tag>>

\* lines 519-522, no match: ""
ExtractNoMatch ==
    /\ pc = "extract_entry"
    /\ MatchStarts(response_text, tag) = {}
    /\ section' = <<>>
    /\ pc' = "extract_returned"
    /\ UNCHANGED <<notExtractVars, response_text, tag>>

NextExtract == ExtractMatch \/ ExtractNoMatch

SpecExtract == InitExtract /\ [][NextExtract]_vars

\* the text between the first opening tag and the first closing tag after it
FirstSection(text, name) ==
    LET opens == Occurrences(text, OpenTag(name))
        from == SetMin(opens) + Len(OpenTag(name))
        closes == {c \in Occurrences(text, CloseTag(name)) : c >= from}
    IN  SubSeq(text, from, SetMin(closes) - 1)

WellFormed(text, name) ==
    /\ Occurrences(text, OpenTag(name)) # {}
    /\ \E c \in Occurrences(text, CloseTag(name)) :
          c >= SetMin(Occurrences(text, OpenTag(name))) + Len(OpenTag(name))

\* C10: the parser returns the trimmed text between the first '[tag]' and the
\* first '[/tag]' after it, and the empty string when the tag is absent or
\* malformed (opening without closing, closing before opening); the response
\* holding only overall_summary = A and suggestions = B yields 'A', '' and 'B'.
C10_TaggedSection ==
    pc = "extract_returned" =>
        /\ WellFormed(response_text, tag) =>
              section = Strip(FirstSection(response_text, tag))
        /\ ~WellFormed(response_text, tag) => section = <<>>
        /\ response_text = ExampleResponse =>
              section = (IF tag = overall_summary THEN <<"A">>
                         ELSE IF tag = suggestions THEN <<"B">> ELSE <<>>)

\* an opening tag, a section that needs trimming, and two closing tags
C10_Witness ==
    /\ pc = "extract_returned"
    /\ tag = suggestions
    /\ response_text = OpenTag(suggestions) \o <<" ", "B", "\n">>
                           \o CloseTag(suggestions) \o CloseTag(suggestions)
    /\ section = <<"B">>

----------------------------------------------------------------------------
(* Token estimator called on one text: _estimate_token_count *)

MaxEstimateLen == 24             \* longest text given to the estimator on its own

EstimateTexts == {Repeat("x", n) : n \in 0..MaxEstimateLen}

InitEstimate ==
    /\ pc = "estimate_entry"
    /\ InitEstimator
    /\ estimate_text \in EstimateTexts
    /\ estimated_tokens = 0
    /\ IdleChunk
    /\ IdleCompress
    /\ llm_calls = <<>>
    /\ IdleSort
    /\ IdleScore
    /\ IdleFilter
    /\ IdleExtract
    /\ IdleMain
    /\ IdleClient

EstimateReturn(count) ==
    /\ estimated_tokens' = count
    /\ pc' = "estimate_returned"
    /\ UNCHANGED <<estVars, notCountVars, estimate_text>>

\* lines 165, 174: tiktoken.encoding_for_model(model) succeeds
EstimateWithModelEncoding ==
    /\ pc = "estimate_entry"
    /\ HAS_TIKTOKEN
    /\ encoding = "model"
    /\ EstimateReturn(EncodedLength(estimate_text))

\* lines 166-174: KeyError for the model, the count of cl100k_base is returned
EstimateWithCl100k ==
    /\ pc = "estimate_entry"
    /\ HAS_TIKTOKEN
    /\ encoding = "cl100k"
    /\ EstimateReturn(EncodedLength(estimate_text))

\* lines 175-180: a KeyError or ValueError reaches the outer handler
EstimateAfterError ==
    /\ pc = "estimate_entry"
    /\ HAS_TIKTOKEN
    /\ encoding = "error"
    /\ EstimateReturn(Len(estimate_text) \div 4)

\* lines 181-183: tiktoken could not be imported
EstimateWithoutLibrary ==
    /\ pc = "estimate_entry"
    /\ ~HAS_TIKTOKEN
    /\ EstimateReturn(Len(estimate_text) \div 4)

NextEstimate ==
    \/ EstimateWithModelEncoding
    \/ EstimateWithCl100k
    \/ EstimateAfterError
    \/ EstimateWithoutLibrary

SpecEstimate == InitEstimate /\ [][NextEstimate]_vars

\* C14: the estimate is an integer >= 0, and it is len(text) // 4 whenever no
\* tokenizer of the model itself is available: tiktoken absent, or tiktoken
\* present without an encoding for the model.
C14_EstimatorFallback ==
    pc = "estimate_returned" =>
        /\ estimated_tokens \in Nat
        /\ (~HAS_TIKTOKEN \/ encoding # "model") =>
              estimated_tokens = Len(estimate_text) \div 4

----------------------------------------------------------------------------
(* The pipeline: main *)

MaxMainMsgs == 2

\* lines 646-650: [SESSION_ID_COL, MESSAGE_CONTENT_COL, ROLE_COL, TIMESTAMP_COL]
RequiredColumns == {"session_id", "content", "role", "timestamp"}

\* the rows of the message file: one session, one speaker, an empty and a long text
MainRows ==
    [session_id : {1}, timestamp : Timestamps, role : {<<"u">>}, content : {<<>>, Repeat("x", 9)}]

\* a file with one message more than a compression batch holds, each message a
\* chunk of its own under the small chunk budget
LongFrame ==
    [i \in 1..(DEFAULT_COMPRESSION_BATCH_SIZE + 1) |->
        [session_id |-> 1, timestamp |-> 1, role |-> <<"u">>, content |-> Repeat("x", 9)]]

\* DEFAULT_MAX_TOKENS_PER_CHUNK and DEFAULT_MAX_TOKENS_FOR_GLOBAL_PROMPT are read
\* from the environment (lines 41 and 44)
MainChunkBudgets  == {4, 16}
MainGlobalBudgets == {0, 100}

\* load_reference_materials: "" or the text of the reference files
ReferenceTexts == {<<>>, Repeat("r", 8)}

\* the runs of main: the message file with all its columns, the message file
\* with one required column missing or absent altogether, and the long file
MainInputs ==
    [exists : {TRUE}, columns : {RequiredColumns},
     df : UNION {[1..n -> MainRows] : n \in 0..MaxMainMsgs},
     chunk_budget : MainChunkBudgets, global_budget : MainGlobalBudgets,
     estimator : CompressEstimators, key : BOOLEAN, references : ReferenceTexts]
    \cup
    [exists : BOOLEAN, columns : {RequiredColumns \ {c} : c \in RequiredColumns},
     df : {<<>>}, chunk_budget : {16}, global_budget : {100},
     estimator : {<<FALSE, "error">>}, key : BOOLEAN, references : {<<>>}]
    \cup
    [exists : {FALSE}, columns : {RequiredColumns},
     df : {<<>>}, chunk_budget : {16}, global_budget : {100},
     estimator : {<<FALSE, "error">>}, key : BOOLEAN, references : {<<>>}]
    \cup
    [exists : {TRUE}, columns : {RequiredColumns},
     df : {LongFrame}, chunk_budget : {4}, global_budget : {0},
     estimator : {<<FALSE, "error">>}, key : {TRUE}, references : {<<>>}]

InitMain ==
    /\ pc = "main_entry"
    /\ \E input \in MainInputs :
          /\ messages_file_exists = input.exists
          /\ columns = input.columns
          /\ messages_df = input.df
          /\ max_tokens_per_chunk = input.chunk_budget
          /\ max_tokens_for_global_prompt = input.global_budget
          /\ HAS_TIKTOKEN = input.estimator[1]
          /\ encoding = input.estimator[2]
          /\ api_key = input.key
          /\ reference_materials = input.references
    /\ transcript = <<>>
    /\ grouped = <<>>
    /\ sorted_messages_df = <<>>
    /\ row_idx = 0
    /\ chunks = <<>>
    /\ current_chunk_text = <<>>
    /\ chunk_summaries = <<>>
    /\ current = <<>>
    /\ next_level = <<>>
    /\ round_index = 0
    /\ batch_start = 0
    /\ compressed = <<>>
    /\ llm_calls = <<>>
    /\ global_prompt = <<>>
    /\ global_response = <<>>
    /\ report_file = <<>>
    /\ error = ""
    /\ IdleClient
    /\ IdleScore
    /\ IdleFilter
    /\ IdleExtract
    /\ IdleCount

\* lines 374-414: the prompt of one chunk; the fixed instruction texts are written
\* as placeholder characters, the chunk position appears twice
build_chunk_analysis_prompt(chunk_index, total_chunks, chunk_text) ==
    LET position == IntToStr(chunk_index + 1) \o <<"/">> \o IntToStr(total_chunks)
    IN  <<NL, "{chunk-instructions}">> \o position \o <<"{chunk-viewpoints}">>
            \o position \o <<"uFF09", NL, NL>> \o chunk_text \o <<NL>>

\* lines 469-471: f"### ... {i + 1} ...\n\n{summary}"
SummarySection(i, summary) ==
    <<"#", "#", "#", " ", "u30C1", "u30E3", "u30F3", "u30AF", " ">> \o IntToStr(i)
        \o <<" ", "u306E", "u5206", "u6790", "u7D50", "u679C", NL, NL>> \o summary

\* lines 473-491: the fixed text of the final prompt in front of {joined}, 335
\* characters, written as filler of that length
GlobalPromptHead == Repeat("g", 335)

\* lines 504-511: the reference section appended to the final prompt
ReferenceSection(materials) ==
    <<NL, "-", "-", "-", NL, "#", "#", " ", "u53C2", "u8003", "u8CC7", "u6599", NL, NL,
      "u4EE5", "u4E0B", "u306E", "u8FFD", "u52A0", "u8CC7", "u6599", "u3082", "u5206",
      "u6790", "u306E", "u53C2", "u8003", "u306B", "u3057", "u3066", "u304F", "u3060",
      "u3055", "u3044", "uFF1A", NL, NL>> \o materials \o <<NL>>

\* lines 456-513
build_global_summary_prompt(summaries, materials) ==
    LET joined == Join([i \in 1..Len(summaries) |-> SummarySection(i, summaries[i])],
                       <<NL, NL, "-", "-", "-", NL, NL>>)
        base_prompt == GlobalPromptHead \o joined \o <<NL>>
    IN  IF materials # <<>> /\ ~(_estimate_token_count(materials) > 10000)
        THEN base_prompt \o ReferenceSection(materials)
        ELSE base_prompt

\* lines 516-522: extract_tagged_section as a function of its arguments
extract_tagged_section(text_in, name) ==
    IF MatchStarts(text_in, name) = {}
    THEN <<>>
    ELSE LET m == Search(text_in, name)
         IN  Strip(SubSeq(text_in, m[1], m[2]))

\* lines 547-579: the report; its fixed headings are written as placeholders
render_report(summary_text, overlooked_text, suggestions_text, session_ids) ==
    <<NL, "{title}", NL, NL>>
        \o (IF session_ids # {} THEN <<"{session-urls}", NL, NL>> ELSE <<>>)
        \o <<"{heading-1}", NL>> \o summary_text \o <<NL, NL>>
        \o <<"{heading-2}", NL>> \o overlooked_text \o <<NL, NL>>
        \o <<"{heading-3}", NL>> \o suggestions_text \o <<NL>>

\* the final response: empty, or the three sections asked for
SynthesisResponses == {<<>>, ExampleResponse}

\* lines 743-752: the except clauses log and raise again, the output is not touched
ReportOnFailure_Partial(file) == <<render_report(<<>>, <<>>, <<>>, {})>>
ReportOnFailure(file) == file

\* main ends with RuntimeError
MainRaises(kind) ==
    /\ pc' = "main_failed"
    /\ error' = kind
    /\ report_file' = ReportOnFailure(report_file)

\* lines 79-83, 642 and 743-745: the message file is not there
MainFileNotFound ==
    /\ pc = "main_entry"
    /\ ~messages_file_exists
    /\ MainRaises("file_not_found")
    /\ UNCHANGED <<estVars, chunkVars, compVars, llm_calls, sortVars, scoreVars, filterVars,
                   extractVars, countVars, clientVars, messages_file_exists, api_key,
                   reference_materials, global_prompt, global_response>>

\* line 88: missing = [col for col in required if col not in df.columns]
MissingColumns_None(cols) == {}
MissingColumns(cols) == RequiredColumns \ cols

\* lines 86-94 and 646-650: validate_required_columns finds a column missing
MainMissingColumns ==
    /\ pc = "main_entry"
    /\ messages_file_exists
    /\ MissingColumns(columns) # {}
    /\ MainRaises("missing_columns")
    /\ UNCHANGED <<estVars, chunkVars, compVars, llm_calls, sortVars, scoreVars, filterVars,
                   extractVars, countVars, clientVars, messages_file_exists, api_key,
                   reference_materials, global_prompt, global_response>>

\* lines 642-666: the file is loaded and valid, build_global_transcript_df is called
MainLoaded ==
    /\ pc = "main_entry"
    /\ messages_file_exists
    /\ MissingColumns(columns) = {}
    /\ pc' = "sort_entry"
    /\ UNCHANGED <<estVars, chunkVars, compVars, llm_calls, sortVars, scoreVars, filterVars,
                   extractVars, countVars, clientVars, mainVars>>

\* lines 666-675 and 201-213: chunk_messages_for_llm is called on the sorted frame
MainStartChunking ==
    /\ pc = "transcript_returned"
    /\ sorted_messages_df' = transcript
    /\ row_idx' = 0
    /\ chunks' = <<>>
    /\ current_chunk_text' = <<>>
    /\ pc' = "chunk_loop"
    /\ UNCHANGED <<estVars, max_tokens_per_chunk, compVars, llm_calls, sortVars, scoreVars,
                   filterVars, extractVars, countVars, clientVars, mainVars>>

\* line 677: "if not chunks"
NoChunks_Never(cs) == FALSE
NoChunks(cs) == cs = <<>>

\* lines 677-680: nothing to analyse
MainNoChunks ==
    /\ pc = "chunk_returned"
    /\ NoChunks(chunks)
    /\ MainRaises("no_messages")
    /\ UNCHANGED <<estVars, chunkVars, compVars, llm_calls, sortVars, scoreVars, filterVars,
                   extractVars, countVars, clientVars, messages_file_exists, api_key,
                   reference_materials, global_prompt, global_response>>

\* line 682 with llm_client.py 21-37: LLMClient() finds no OPENAI_API_KEY
MainNoApiKey ==
    /\ pc = "chunk_returned"
    /\ ~NoChunks(chunks)
    /\ ~api_key
    /\ MainRaises("missing_api_key")
    /\ UNCHANGED <<estVars, chunkVars, compVars, llm_calls, sortVars, scoreVars, filterVars,
                   extractVars, countVars, clientVars, messages_file_exists, api_key,
                   reference_materials, global_prompt, global_response>>

\* lines 682-685: the client is built, the list of analyses is empty
MainClientReady ==
    /\ pc = "chunk_returned"
    /\ ~NoChunks(chunks)
    /\ api_key
    /\ chunk_summaries' = <<>>
    /\ pc' = "analyze"
    /\ UNCHANGED <<estVars, chunkVars, max_tokens_for_global_prompt, current, next_level,
                   round_index, batch_start, compressed, llm_calls, sortVars, scoreVars,
                   filterVars, extractVars, countVars, clientVars, mainVars>>

\* line 686: "for i, chunk_text in enumerate(chunks)", the chunk of index i
ChunkAt_First(cs, i) == cs[1]
ChunkAt(cs, i) == cs[i + 1]

\* lines 686-701: one chunk is analysed by one request that succeeds
MainAnalyzeChunk ==
    /\ pc = "analyze"
    /\ Len(chunk_summaries) < Len(chunks)
    /\ \E chunk_analysis \in LLMResponses :
          LET i == Len(chunk_summaries)
              chunk_prompt == build_chunk_analysis_prompt(i, Len(chunks), ChunkAt(chunks, i))
          IN  /\ llm_calls' = Append(llm_calls, LLMCall("analyze", chunk_prompt, chunk_analysis))
              /\ chunk_summaries' = Append(chunk_summaries, chunk_analysis)
    /\ UNCHANGED <<pc, estVars, chunkVars, max_tokens_for_global_prompt, current, next_level,
                   round_index, batch_start, compressed, sortVars, scoreVars,
                   filterVars, extractVars, countVars, clientVars, mainVars>>

\* lines 694-700 with llm_client.py 69-87: the request fails
MainAnalyzeRaises ==
    /\ pc = "analyze"
    /\ Len(chunk_summaries) < Len(chunks)
    /\ MainRaises("llm_error")
    /\ UNCHANGED <<estVars, chunkVars, compVars, llm_calls, sortVars, scoreVars, filterVars,
                   extractVars, countVars, clientVars, messages_file_exists, api_key,
                   reference_materials, global_prompt, global_response>>

\* lines 705-710 and 265-267: compress_chunk_summaries is called
MainStartCompression ==
    /\ pc = "analyze"
    /\ Len(chunk_summaries) = Len(chunks)
    /\ current' = <<>>
    /\ next_level' = <<>>
    /\ round_index' = 0
    /\ batch_start' = 0
    /\ compressed' = <<>>
    /\ pc' = "compress_entry"
    /\ UNCHANGED <<estVars, chunkVars, chunk_summaries, max_tokens_for_global_prompt,
                   llm_calls, sortVars, scoreVars, filterVars, extractVars, countVars, clientVars,
                   mainVars>>

\* lines 705-710 and 746-748: the RuntimeError of a compression request reaches main
MainCompressRaised ==
    /\ pc = "compress_raised"
    /\ MainRaises("llm_error")
    /\ UNCHANGED <<estVars, chunkVars, compVars, llm_calls, sortVars, scoreVars, filterVars,
                   extractVars, countVars, clientVars, messages_file_exists, api_key,
                   reference_materials, global_prompt, global_response>>

\* lines 714-721: the final prompt is built and its request succeeds
MainSynthesize ==
    /\ pc = "compress_returned"
    /\ global_prompt' = build_global_summary_prompt(compressed, reference_materials)
    /\ \E answer \in SynthesisResponses :
          /\ global_response' = answer
          /\ llm_calls' = Append(llm_calls, LLMCall("synthesize", global_prompt', answer))
    /\ pc' = "synthesized"
    /\ UNCHANGED <<estVars, chunkVars, compVars, sortVars, scoreVars, filterVars,
                   extractVars, countVars, clientVars, messages_file_exists, api_key,
                   reference_materials, report_file, error>>

\* lines 714-721 with llm_client.py 69-87: the final request fails
MainSynthesisRaises ==
    /\ pc = "compress_returned"
    /\ global_prompt' = build_global_summary_prompt(compressed, reference_materials)
    /\ MainRaises("llm_error")
    /\ UNCHANGED <<estVars, chunkVars, compVars, llm_calls, sortVars, scoreVars, filterVars,
                   extractVars, countVars, clientVars, messages_file_exists, api_key,
                   reference_materials, global_response>>

\* lines 723-741: the sections are extracted, the report is rendered and written
MainWriteReport ==
    /\ pc = "synthesized"
    /\ report_file' =
          <<render_report(extract_tagged_section(global_response, overall_summary),
                          extract_tagged_section(global_response, overlooked_points),
                          extract_tagged_section(global_response, suggestions),
                          SessionIds(messages_df))>>
    /\ pc' = "main_done"
    /\ UNCHANGED <<estVars, chunkVars, compVars, llm_calls, sortVars, scoreVars, filterVars,
                   extractVars, countVars, clientVars, messages_file_exists, api_key,
                   reference_materials, global_prompt, global_response, error>>

NextMain ==
    \/ MainFileNotFound \/ MainMissingColumns \/ MainLoaded
    \/ BuildGlobalTranscriptDf
    \/ MainStartChunking
    \/ NextChunk
    \/ MainNoChunks \/ MainNoApiKey \/ MainClientReady
    \/ MainAnalyzeChunk \/ MainAnalyzeRaises \/ MainStartCompression
    \/ NextCompress
    \/ MainCompressRaised
    \/ MainSynthesize \/ MainSynthesisRaises
    \/ MainWriteReport

SpecMain == InitMain /\ [][NextMain]_vars

\* main has got past the checks that come before the first request
PastChecks ==
    pc \in {"analyze", "compress_entry", "compress_round", "compress_batch", "compress_returned",
            "compress_raised", "synthesized", "main_done"}

\* C11: on an empty utterance stream the chunker returns zero chunks, and main
\* then ends with the no-messages error before any request is made and without
\* writing the report.
C11_EmptyStreamAborts ==
    /\ []((pc = "chunk_returned" /\ sorted_messages_df = <<>>) => chunks = <<>>)
    /\ [][(pc = "chunk_returned" /\ chunks = <<>>) =>
             (pc' = "main_failed" /\ error' = "no_messages")]_vars
    /\ []((pc = "chunk_returned" /\ chunks = <<>>) => ENABLED MainNoChunks)
    /\ []((messages_file_exists /\ RequiredColumns \subseteq columns /\ messages_df = <<>>) =>
             /\ ~PastChecks
             /\ llm_calls = <<>>
             /\ report_file = <<>>
             /\ pc = "main_failed" => error = "no_messages")

\* an empty message file, a key that is set, and main has failed
C11_Witness ==
    /\ pc = "main_failed"
    /\ error = "no_messages"
    /\ messages_file_exists
    /\ messages_df = <<>>
    /\ chunks = <<>>
    /\ api_key
    /\ llm_calls = <<>>
    /\ report_file = <<>>

\* a run stops only by failing
StopsOnlyFailed == pc = "main_failed" \/ ENABLED NextMain

\* C18 (as stated): when a required column is missing from the message file, or
\* the API key is not set, main fails with a configuration error before any
\* request is made and without writing the report.
C18_ConfigurationErrorFirst ==
    ((messages_file_exists /\ ~(RequiredColumns \subseteq columns)) \/ ~api_key) =>
        /\ ~PastChecks
        /\ llm_calls = <<>>
        /\ report_file = <<>>
        /\ StopsOnlyFailed
        /\ pc = "main_failed" => error \in {"missing_columns", "missing_api_key"}

\* C18 (amended): when a required column is missing from the message file main
\* fails with the missing-columns error; when the API key is not set main fails
\* with the missing-key error if the message file is there, has its columns and
\* yields at least one chunk, and with the error of the message input otherwise;
\* in every case before any request is made and without writing the report.
C18_FailsBeforeAnyCall ==
    ((messages_file_exists /\ ~(RequiredColumns \subseteq columns)) \/ ~api_key) =>
        /\ ~PastChecks
        /\ llm_calls = <<>>
        /\ report_file = <<>>
        /\ StopsOnlyFailed
        /\ pc = "main_failed" =>
              error = (IF ~messages_file_exists THEN "file_not_found"
                       ELSE IF ~(RequiredColumns \subseteq columns) THEN "missing_columns"
                       ELSE IF chunks = <<>> THEN "no_messages"
                       ELSE "missing_api_key")

\* the key is not set, the messages were chunked, and main has failed for the key
C18_Witness ==
    /\ pc = "main_failed"
    /\ ~api_key
    /\ chunks # <<>>
    /\ error = "missing_api_key"
    /\ llm_calls = <<>>
    /\ report_file = <<>>

\* a request of the run has failed
CallFailed == pc = "compress_raised" \/ (pc = "main_failed" /\ error = "llm_error")

\* C12: once a request has failed (chunk analysis, compression batch or final
\* synthesis) no further request is made, the run ends with an error and the
\* report is not written; the report is written only when the run is over and
\* every request of it, the final synthesis last, has succeeded.
C12_FailureIsFatal ==
    /\ [](CallFailed => (report_file = <<>> /\ StopsOnlyFailed))
    /\ [][CallFailed =>
             /\ pc' = "main_failed"
             /\ error' = "llm_error"
             /\ llm_calls' = llm_calls
             /\ report_file' = report_file]_vars
    /\ [](report_file # <<>> =>
             /\ pc = "main_done"
             /\ error = ""
             /\ Len(chunk_summaries) = Len(chunks)
             /\ llm_calls # <<>>
             /\ llm_calls[Len(llm_calls)] = LLMCall("synthesize", global_prompt, global_response))

\* a compression request failed after the analyses had succeeded
C12_Witness ==
    /\ pc = "main_failed"
    /\ error = "llm_error"
    /\ Len(chunk_summaries) = Len(chunks)
    /\ Len(llm_calls) > Len(chunks)
    /\ llm_calls[Len(llm_calls)].system_prompt = "compress"
    /\ global_prompt = <<>>
    /\ report_file = <<>>

\* the requests of the compression rounds over level, batch by batch, each
\* round over the responses of the round before
RECURSIVE IsRoundByRound(_, _)
IsRoundByRound(level, calls) ==
    IF calls = <<>>
    THEN TRUE
    ELSE LET k == BatchCount(Len(level))
         IN  /\ k >= 1
             /\ Len(calls) >= k
             /\ \A j \in 1..k :
                   /\ calls[j].system_prompt = "compress"
                   /\ calls[j].user_prompt =
                         BatchPrompt(Batch(level, (j - 1) * DEFAULT_COMPRESSION_BATCH_SIZE))
             /\ IsRoundByRound([j \in 1..k |-> calls[j].response],
                               SubSeq(calls, k + 1, Len(calls)))

\* C13: in a successful run with N chunks the requests are made one at a time:
\* the N chunk analyses in chunk order, the i-th with the prompt built from
\* chunk i and its response the i-th analysis result, then the compression
\* batches round by round, then exactly one final synthesis.
C13_CallOrder ==
    /\ [][/\ Len(llm_calls') <= Len(llm_calls) + 1
          /\ SubSeq(llm_calls', 1, Len(llm_calls)) = llm_calls]_vars
    /\ [](pc = "main_done" =>
             LET N == Len(chunks)
                 last == Len(llm_calls)
             IN  /\ last >= N + 1
                 /\ Len(chunk_summaries) = N
                 /\ \A i \in 1..N :
                       llm_calls[i] =
                          LLMCall("analyze",
                                  build_chunk_analysis_prompt(i - 1, N, chunks[i]),
                                  chunk_summaries[i])
                 /\ IsRoundByRound(chunk_summaries, SubSeq(llm_calls, N + 1, last - 1))
                 /\ llm_calls[last] = LLMCall("synthesize", global_prompt, global_response)
                 /\ global_prompt = build_global_summary_prompt(compressed, reference_materials))

\* a successful run with two different chunks and a compression request
C13_Witness ==
    /\ pc = "main_done"
    /\ Len(chunks) = 2
    /\ chunks[1] # chunks[2]
    /\ chunk_summaries[1] # chunk_summaries[2]
    /\ Len(llm_calls) > 3
    /\ report_file # <<>>

\* C17: when compress_chunk_summaries returned summaries that pass its budget
\* check, the final prompt build_global_summary_prompt makes of them has an
\* estimate of at most max_tokens_for_global_prompt.
C17_GlobalPromptFits ==
    (global_prompt # <<>> /\ FitsGlobalBudget(compressed)) =>
        _estimate_token_count(global_prompt) <= max_tokens_for_global_prompt

=============================================================================
